---------------------------- MODULE Spec2Model ----------------------------
(***************************************************************************)
(* A model of techlism/secure_cloud: the storage service (src/app), the    *)
(* block server (src/server) and the uploading client (src/client).        *)
(*                                                                         *)
(* Bytes are the integers 0..255, byte strings are sequences of bytes.     *)
(* Python results that may raise are records [ok, val, err].               *)
(***************************************************************************)
EXTENDS Integers, Sequences, FiniteSets, TLC

VARIABLES
    splitSt,    \* one run of the two splitters on one input
    cryptoSt,   \* one encrypt call followed by one decrypt call
    tagSt,      \* one generate_auth_tag call followed by one verification
    extractSt,  \* one _generate_tags call on one text
    searchSt,   \* the last search_blocks call: its arguments and its rows
    s3,         \* the service's bucket: object key -> Body
    files,      \* the service's files table, rows in insertion order
    blocks,     \* the service's blocks table, rows in insertion order
    tags,       \* the service's tags table, rows in insertion order
    call,       \* the upload_file call in progress or last ended: its locals
    calls,      \* upload_file calls started
    rng,        \* get_random_bytes calls made by the service
    faults,     \* failures of the bucket or the database so far
    client,     \* the uploading client: the locals of its call in progress
    crng,       \* uuid4 and get_random_bytes calls made by the client
    srvObjects, \* the block server's bucket: object key -> Body and Metadata
    srvRows,    \* the block server's blocks table, rows in insertion order
    srvReqs,    \* the upload-block requests received, each with its progress
    srvFaults   \* failures of the block server's bucket or database so far

harnessVars == <<splitSt, cryptoSt, tagSt, extractSt, searchSt>>

serviceVars == <<s3, files, blocks, tags, call, calls, rng, faults>>

clientVars == <<client, crng, srvObjects, srvRows, srvReqs, srvFaults>>

vars == <<splitSt, cryptoSt, tagSt, extractSt, searchSt, s3, files, blocks, tags, call, calls, rng, faults,
          client, crng, srvObjects, srvRows, srvReqs, srvFaults>>

-----------------------------------------------------------------------------
(* Bounds of the model.                                                    *)

\* longest input handed to the splitters
MaxLen == 5
\* largest block_size handed to the splitters
MaxBlockSize == 3
\* longest plaintext handed to encrypt
MaxPlainLen == 33
\* config.BLOCK_SIZE of the service, scaled down from 1024 * 1024
BLOCK_SIZE == 2
\* longest file uploaded to the service
MaxFileLen == 4
\* upload_file calls made
MaxUploads == 2
\* failures of the bucket or the database in one run
MaxFaults == 1
\* block_size of the client, scaled down from 1024 * 1024
block_size == 2
\* longest file the client uploads
MaxClientLen == 3
\* upload_file calls made by the client
MaxClientUploads == 2
\* failures of the block server's bucket or database in one run
MaxServerFaults == 1
MaxRequests == 3
\* longest block a tag is generated for
MaxTagLen == 17
\* search_by_keyword calls made
MaxSearches == 1
\* most words of a text handed to the tag extractor
MaxWords == 3
\* most repetitions of one word in a text handed to the tag extractor
MaxRepeat == 10
\* the order of the group of the tags, scaled down from that of P256
GroupOrder == 7

-----------------------------------------------------------------------------
(* Byte strings.                                                           *)

Min(a, b) == IF a < b THEN a ELSE b

\* n copies of byte b: bytes([b]) * n
Fill(n, b) == [i \in 1..n |-> b]

\* the byte string 0, 1, 2, ... of length n
Ramp(n) == [i \in 1..n |-> (i - 1) % 256]

\* Python's s[lo:hi] for 0 <= lo, with hi clamped to len(s)
Slice(s, lo, hi) == SubSeq(s, lo + 1, Min(hi, Len(s)))

RECURSIVE Concat(_)
\* b''.join(blocks)
Concat(parts) ==
    IF parts = <<>> THEN <<>> ELSE Head(parts) \o Concat(Tail(parts))

RECURSIVE XorBits(_, _, _)
XorBits(a, b, n) ==
    IF n = 0 THEN 0
    ELSE ((a + b) % 2) + 2 * XorBits(a \div 2, b \div 2, n - 1)

\* a ^ b on bytes
ByteXor(a, b) == XorBits(a, b, 8)

\* bytewise xor of two strings of the same length
StrXor(s, t) == [i \in 1..Len(s) |-> ByteXor(s[i], t[i])]

Ok(v) == [ok |-> TRUE, val |-> v, err |-> ""]

Raise(e) == [ok |-> FALSE, val |-> <<>>, err |-> e]

-----------------------------------------------------------------------------
(* Splitter: app SecureStorageService._split_into_blocks and client        *)
(* SecureFileUploader.split_file / upload_file.                            *)

RECURSIVE RangeStep(_, _, _)
\* range(lo, hi, step) as a sequence
RangeStep(lo, hi, step) ==
    IF lo >= hi THEN <<>> ELSE <<lo>> \o RangeStep(lo + step, hi, step)

\* a splitter that slices content[i : i + bs - 1]: the last byte of a block is lost
SplitDropsByte(content, bs) ==
    LET starts == RangeStep(0, Len(content), bs)
    IN  [k \in 1..Len(starts) |-> Slice(content, starts[k], starts[k] + bs - 1)]

\* [content[i:i + BLOCK_SIZE] for i in range(0, len(content), BLOCK_SIZE)]
SplitIntoBlocks(content, bs) ==
    LET starts == RangeStep(0, Len(content), bs)
    IN  [k \in 1..Len(starts) |-> Slice(content, starts[k], starts[k] + bs)]

RECURSIVE ReadLoop(_, _, _)
\* the generator's loop: block = f.read(block_size); if not block: break; yield block
ReadLoop(content, pos, bs) ==
    LET block == Slice(content, pos, pos + bs)
    IN  IF block = <<>> THEN <<>>
        ELSE <<block>> \o ReadLoop(content, pos + Len(block), bs)

\* list(split_file(path)) for a file holding content
SplitFile(content, bs) == ReadLoop(content, 0, bs)

\* file_size // block_size: rounds down where the code rounds up
TotalBlocksFloor(size, bs) == size \div bs

\* math.ceil(file_size / self.block_size); the float quotient is exact enough
\* for every file_size below 2^53
TotalBlocks(size, bs) == (size + bs - 1) \div bs

-----------------------------------------------------------------------------
(* Encryptor: SecureStorageService._encrypt_block / _decrypt_block, and    *)
(* the library calls they make (Crypto.Cipher.AES, Crypto.Util.Padding,    *)
(* base64).                                                                *)

\* AES.block_size
AES_block_size == 16

\* config.KEY: 'xr6v3tjraSK2iZFrMW7QZQ1M2IXDB8eR'.encode('utf-8')
KEY ==
    <<120, 114, 54, 118, 51, 116, 106, 114, 97, 83, 75, 50, 105, 90, 70, 114,
      77, 87, 55, 81, 90, 81, 49, 77, 50, 73, 88, 68, 66, 56, 101, 82>>

\* the client's key: b'MySuperSecretKey12345MySuperSecretKey12345'[:32]
ClientKey ==
    <<77, 121, 83, 117, 112, 101, 114, 83, 101, 99, 114, 101, 116, 75, 101, 121,
      49, 50, 51, 52, 53, 77, 121, 83, 117, 112, 101, 114, 83, 101, 99, 114>>

\* The AES primitive on one 16-byte block, as a keyed permutation of the
\* blocks: every byte is shifted by the two key bytes of its position.
AESEncryptBlock(key, b) ==
    [i \in 1..AES_block_size |-> (b[i] + key[i] + key[i + AES_block_size]) % 256]

\* its inverse
AESDecryptBlock(key, c) ==
    [i \in 1..AES_block_size |->
        (c[i] + 512 - key[i] - key[i + AES_block_size]) % 256]

RECURSIVE CBCEncrypt(_, _, _)
\* AES.new(key, MODE_CBC, iv).encrypt(data), len(data) a multiple of 16:
\* c_i = E(p_i xor c_(i-1)), c_0 = iv
CBCEncrypt(key, prev, data) ==
    IF data = <<>> THEN <<>>
    ELSE LET c == AESEncryptBlock(key,
                     StrXor(SubSeq(data, 1, AES_block_size), prev))
         IN  c \o CBCEncrypt(key, c, SubSeq(data, AES_block_size + 1, Len(data)))

RECURSIVE CBCDecrypt(_, _, _)
\* AES.new(key, MODE_CBC, iv).decrypt(data): p_i = D(c_i) xor c_(i-1)
CBCDecrypt(key, prev, data) ==
    IF data = <<>> THEN <<>>
    ELSE LET c == SubSeq(data, 1, AES_block_size)
         IN  StrXor(AESDecryptBlock(key, c), prev)
             \o CBCDecrypt(key, c, SubSeq(data, AES_block_size + 1, Len(data)))

\* a pad that adds nothing to data whose length is already a multiple of bs
PadOnlyWhenNeeded(data, bs) ==
    IF Len(data) % bs = 0 THEN data
    ELSE data \o Fill(bs - (Len(data) % bs), bs - (Len(data) % bs))

\* Crypto.Util.Padding.pad(data, block_size), PKCS#7: always 1..bs bytes
Pad(data, bs) ==
    LET padding_len == bs - (Len(data) % bs)
    IN  data \o Fill(padding_len, padding_len)

\* an unpad that trusts the last byte and does not look at the other padding bytes
UnpadLastByteOnly(padded, bs) ==
    LET n == Len(padded)
    IN  IF n = 0 THEN Raise("ValueError")
        ELSE IF n % bs # 0 THEN Raise("ValueError")
        ELSE LET padding_len == padded[n]
             IN  IF padding_len < 1 \/ padding_len > Min(bs, n)
                 THEN Raise("ValueError")
                 ELSE Ok(SubSeq(padded, 1, n - padding_len))

\* Crypto.Util.Padding.unpad(padded, block_size), PKCS#7
Unpad(padded, bs) ==
    LET n == Len(padded)
    IN  IF n = 0 THEN Raise("ValueError")
        ELSE IF n % bs # 0 THEN Raise("ValueError")
        ELSE LET padding_len == padded[n]
             IN  IF padding_len < 1 \/ padding_len > Min(bs, n)
                 THEN Raise("ValueError")
                 ELSE IF SubSeq(padded, n - padding_len + 1, n)
                            # Fill(padding_len, padding_len)
                 THEN Raise("ValueError")
                 ELSE Ok(SubSeq(padded, 1, n - padding_len))

\* A base64 text is a sequence of symbols: 0..63 are the alphabet's
\* characters in order, B64Pad is '='.
B64Pad == 64

RECURSIVE B64Encode(_)
\* base64.b64encode(data).decode('utf-8')
B64Encode(data) ==
    IF Len(data) = 0 THEN <<>>
    ELSE IF Len(data) = 1 THEN
        <<data[1] \div 4, (data[1] % 4) * 16, B64Pad, B64Pad>>
    ELSE IF Len(data) = 2 THEN
        <<data[1] \div 4, (data[1] % 4) * 16 + data[2] \div 16,
          (data[2] % 16) * 4, B64Pad>>
    ELSE
        <<data[1] \div 4, (data[1] % 4) * 16 + data[2] \div 16,
          (data[2] % 16) * 4 + data[3] \div 64, data[3] % 64>>
        \o B64Encode(SubSeq(data, 4, Len(data)))

\* an encoder that encodes iv[:-1]: the last byte of the data is left out
B64EncodeDropsLast(data) ==
    IF data = <<>> THEN <<>> ELSE B64Encode(SubSeq(data, 1, Len(data) - 1))

RECURSIVE B64Quads(_)
\* the bytes of well-padded base64 text, four symbols at a time; the bits a
\* final short group leaves over are dropped without a check (non-strict mode)
B64Quads(text) ==
    IF text = <<>> THEN <<>>
    ELSE LET b1 == (text[1] * 4 + text[2] \div 16) % 256
             b2 == ((text[2] % 16) * 16 + text[3] \div 4) % 256
             b3 == ((text[3] % 4) * 64 + text[4]) % 256
             rest == SubSeq(text, 5, Len(text))
         IN  IF text[3] = B64Pad THEN <<b1>>
             ELSE IF text[4] = B64Pad THEN <<b1, b2>>
             ELSE <<b1, b2, b3>> \o B64Quads(rest)

\* base64.b64decode(text.encode('utf-8'))
B64Decode(text) ==
    IF Len(text) % 4 # 0 THEN Raise("binascii.Error") ELSE Ok(B64Quads(text))

\* _encrypt_block with a nonce that leaves out the last byte of the iv
EncryptBlockShortNonce(data, key, iv) ==
    <<CBCEncrypt(key, iv, Pad(data, AES_block_size)), B64EncodeDropsLast(iv)>>

\* _encrypt_block(data), iv being what get_random_bytes(AES.block_size)
\* returned: (encrypted_data, base64 text of the iv)
EncryptBlock(data, key, iv) ==
    <<CBCEncrypt(key, iv, Pad(data, AES_block_size)), B64Encode(iv)>>

\* _decrypt_block(encrypted_data, iv): AES.new raises on an iv that is not
\* 16 bytes, decrypt on data that is not a multiple of 16 bytes, unpad on
\* bad padding
DecryptBlock(encrypted_data, ivtext, key) ==
    LET iv == B64Decode(ivtext)
    IN  IF ~iv.ok THEN iv
        ELSE IF Len(iv.val) # AES_block_size THEN Raise("ValueError")
        ELSE IF Len(encrypted_data) % AES_block_size # 0 THEN Raise("ValueError")
        ELSE Unpad(CBCDecrypt(key, iv.val, encrypted_data), AES_block_size)

-----------------------------------------------------------------------------
(* Hasher, preview decoding and the tag extractor of the storage service.  *)
(* A text is a sequence of character codes.                                *)

\* hashlib.sha256(block).hexdigest(), taken to be free of collisions: the
\* digest stands for the bytes it was computed over and for nothing else
Sha256(data) == [sha256 |-> data]

\* bytes that occur in no UTF-8 text
NeverUtf8 == {192, 193} \cup (245..255)

\* a decoder that never fails, as block.decode('latin-1')
Utf8DecodeLenient(block) == Ok(block)

\* block.decode('utf-8') for blocks made of ASCII bytes and NeverUtf8 bytes
Utf8Decode(block) ==
    IF \E i \in 1..Len(block) : block[i] \in NeverUtf8
    THEN Raise("UnicodeDecodeError")
    ELSE Ok(block)

\* the code of ' '
Space == 32

RECURSIVE Words(_, _)
\* word_tokenize(text.lower()) for a text of lower-case letters and spaces:
\* the maximal runs of letters; cur is the run being read
Words(text, cur) ==
    IF text = <<>> THEN (IF cur = <<>> THEN <<>> ELSE <<cur>>)
    ELSE IF Head(text) = Space
         THEN (IF cur = <<>> THEN <<>> ELSE <<cur>>) \o Words(Tail(text), <<>>)
         ELSE Words(Tail(text), Append(cur, Head(text)))

\* the entries of stopwords.words('english') and of the vectorizer's
\* stop_words='english' list that the model's letters can spell: 'a', 'i'
StopWords == {<<97>>, <<105>>}

\* WordNetLemmatizer().lemmatize(token): a token WordNet has no noun entry
\* for, as every token of the model's letters, is returned as it is
Lemmatize(token) == token

\* the tokens the vectorizer reads from ' '.join(tokens): token_pattern
\* r"(?u)\b\w\w+\b" keeps runs of two or more word characters, then stop
\* words are dropped
VectorizerTokens(tokens) ==
    SelectSeq(tokens, LAMBDA t : Len(t) >= 2 /\ t \notin StopWords)

\* ngram_range=(1, 2): every token and every two adjacent tokens joined by ' '
NGrams(toks) ==
    toks \o [i \in 1..(Len(toks) - 1) |-> toks[i] \o <<Space>> \o toks[i + 1]]

\* a < b for two texts, in the order sorted() puts strings
LexLess(a, b) ==
    \E k \in 1..(Min(Len(a), Len(b)) + 1) :
        /\ \A j \in 1..(k - 1) : a[j] = b[j]
        /\ \/ (k > Len(a) /\ k <= Len(b))
           \/ (k <= Len(a) /\ k <= Len(b) /\ a[k] < b[k])

RECURSIVE SortedTerms(_)
\* sorted(vocabulary): get_feature_names_out() lists the terms in this order
SortedTerms(S) ==
    IF S = {} THEN <<>>
    ELSE LET m == CHOOSE x \in S : \A y \in S \ {x} : LexLess(x, y)
         IN  <<m>> \o SortedTerms(S \ {m})

\* how often term occurs in the sequence grams
Count(grams, term) == Cardinality({i \in 1..Len(grams) : grams[i] = term})

RECURSIVE ByCountDesc(_)
\* a stable sort of [term, count] rows by count, largest first
ByCountDesc(rows) ==
    IF rows = <<>> THEN <<>>
    ELSE LET top == CHOOSE i \in 1..Len(rows) :
                       /\ \A j \in 1..Len(rows) : rows[j].count <= rows[i].count
                       /\ \A j \in 1..(i - 1) : rows[j].count < rows[i].count
         IN  <<rows[top]>>
             \o ByCountDesc(SubSeq(rows, 1, top - 1)
                            \o SubSeq(rows, top + 1, Len(rows)))

\* TfidfVectorizer(max_features=...)
max_features == 10

RECURSIVE SumSquares(_)
SumSquares(rows) ==
    IF rows = <<>> THEN 0
    ELSE Head(rows).count * Head(rows).count + SumSquares(Tail(rows))

\* a filter that keeps every term of positive score
ScoreAboveZero(score, num, den) == score.num > 0

\* A score is count / sqrt(sq), kept as the pair [num, sq]: with one
\* document every idf is 1, so the tf-idf row is the term counts, scaled to
\* Euclidean length 1.
ScoreAbove(score, num, den) ==
    \* score > num / den
    score.num * score.num * den * den > num * num * score.sq

\* _generate_tags(text): the (term, 'tfidf', score) tuples, best score first,
\* of the terms scoring more than 0.1; fit_transform raises ValueError on an
\* empty vocabulary
GenerateTags(text) ==
    LET tokens == SelectSeq(Words(text, <<>>), LAMBDA t : t \notin StopWords)
        lemmas == [i \in 1..Len(tokens) |-> Lemmatize(tokens[i])]
        grams == NGrams(VectorizerTokens(lemmas))
        vocab == SortedTerms({grams[i] : i \in 1..Len(grams)})
        counted == [i \in 1..Len(vocab) |->
                       [term |-> vocab[i], count |-> Count(grams, vocab[i])]]
        limited == SubSeq(ByCountDesc(counted), 1, Min(max_features, Len(counted)))
        kept == SelectSeq(counted,
                          LAMBDA r : \E i \in 1..Len(limited) : limited[i] = r)
        sq == SumSquares(kept)
        scored == [i \in 1..Len(kept) |->
                      [tag |-> kept[i].term, tag_type |-> "tfidf",
                       count |-> kept[i].count,
                       score |-> [num |-> kept[i].count, sq |-> sq]]]
        ranked == ByCountDesc(scored)
    IN  IF grams = <<>> THEN Raise("ValueError")
        ELSE Ok([i \in 1..Len(SelectSeq(ranked, LAMBDA r : ScoreAbove(r.score, 1, 10)))
                   |-> LET r == SelectSeq(ranked,
                                          LAMBDA q : ScoreAbove(q.score, 1, 10))[i]
                       IN  [tag |-> r.tag, tag_type |-> r.tag_type,
                            score |-> r.score]])

-----------------------------------------------------------------------------
(* The splitters run on one input: app._split_into_blocks with BLOCK_SIZE  *)
(* = bs, and the client's upload_file loop with block_size = bs.           *)

\* the byte values the inputs of the splitters are made of
SplitBytes == {7, 9}

SplitInputs ==
    UNION {[1..n -> SplitBytes] : n \in 0..MaxLen}
    \cup {Ramp(n) : n \in 0..(10 * MaxBlockSize)}

SplitIdle ==
    [content |-> <<>>, bs |-> 1, appDone |-> FALSE, app |-> <<>>,
     cliDone |-> FALSE, cli |-> <<>>, total |-> 0]

\* blocks = self._split_into_blocks(content)
AppSplit ==
    /\ ~splitSt.appDone
    /\ splitSt' = [splitSt EXCEPT
                      !.appDone = TRUE,
                      !.app = SplitIntoBlocks(splitSt.content, splitSt.bs)]
    /\ UNCHANGED <<cryptoSt, tagSt, extractSt, searchSt, serviceVars, clientVars>>

\* the client's upload_file: total_blocks from the file size, then one
\* iteration per block that split_file yields
ClientSplit ==
    /\ ~splitSt.cliDone
    /\ splitSt' = [splitSt EXCEPT
                      !.cliDone = TRUE,
                      !.total = TotalBlocks(Len(splitSt.content), splitSt.bs),
                      !.cli = SplitFile(splitSt.content, splitSt.bs)]
    /\ UNCHANGED <<cryptoSt, tagSt, extractSt, searchSt, serviceVars, clientVars>>

-----------------------------------------------------------------------------
(* One _encrypt_block call on a plaintext and one _decrypt_block call on   *)
(* its result, as returned or tampered with.                               *)

\* the byte values the plaintexts are made of
PlainBytes == {0, 1, 16}

Plaintexts ==
    {Fill(n, b) : n \in 0..MaxPlainLen, b \in PlainBytes}
    \cup {Ramp(n) : n \in 0..MaxPlainLen}

\* the values get_random_bytes(16) returns in the model
IVs ==
    {Fill(AES_block_size, 0),
     [i \in 1..AES_block_size |-> IF i = AES_block_size THEN 1 ELSE 0],
     [i \in 1..AES_block_size |-> (i * 17) % 256]}

\* keys other than the configured one
OtherKeys == {ClientKey, [KEY EXCEPT ![1] = 121]}

\* the bit patterns a corrupted byte is xored with
FlipMasks == {1, 255}

\* ciphertexts that differ from ct: one byte changed, or the end cut off
Corrupted(ct) ==
    {[ct EXCEPT ![p] = ByteXor(ct[p], m)] : p \in 1..Len(ct), m \in FlipMasks}
    \cup {SubSeq(ct, 1, Len(ct) - k) : k \in {1, AES_block_size}}

\* nonce texts that differ from nonce: the encoding of another iv, the same
\* iv with the unused low bits of the last symbol set, a 15-byte iv, and a
\* text cut short
OtherNonces(nonce) ==
    ({B64Encode(v) : v \in IVs}
     \cup {[nonce EXCEPT ![22] = nonce[22] + 1],
           SubSeq(nonce, 1, 20), SubSeq(nonce, 1, 23)})
    \ {nonce}

CryptoIdle ==
    [stage |-> "input", pt |-> <<>>, iv |-> <<>>, ct |-> <<>>, nonce |-> <<>>,
     how |-> "", dct |-> <<>>, dnonce |-> <<>>, dkey |-> <<>>,
     res |-> Raise("")]

\* encrypted_block, iv = self._encrypt_block(block)
Encrypt ==
    /\ cryptoSt.stage = "input"
    /\ \E iv \in IVs :
          LET r == EncryptBlock(cryptoSt.pt, KEY, iv)
          IN  cryptoSt' = [cryptoSt EXCEPT !.stage = "encrypted", !.iv = iv,
                                           !.ct = r[1], !.nonce = r[2]]
    /\ UNCHANGED <<splitSt, tagSt, extractSt, searchSt, serviceVars, clientVars>>

\* the state after _decrypt_block(ct, nonce) by a service whose key is key
Decrypted(how, ct, nonce, key) ==
    [cryptoSt EXCEPT !.stage = "decrypted", !.how = how,
                     !.dct = ct, !.dnonce = nonce, !.dkey = key,
                     !.res = DecryptBlock(ct, nonce, key)]

\* _decrypt_block on exactly what _encrypt_block returned
Decrypt ==
    /\ cryptoSt.stage = "encrypted"
    /\ cryptoSt' = Decrypted("same", cryptoSt.ct, cryptoSt.nonce, KEY)
    /\ UNCHANGED <<splitSt, tagSt, extractSt, searchSt, serviceVars, clientVars>>

\* _decrypt_block on a corrupted ciphertext
DecryptCorrupted ==
    /\ cryptoSt.stage = "encrypted"
    /\ \E ct \in Corrupted(cryptoSt.ct) :
          cryptoSt' = Decrypted("ciphertext", ct, cryptoSt.nonce, KEY)
    /\ UNCHANGED <<splitSt, tagSt, extractSt, searchSt, serviceVars, clientVars>>

\* _decrypt_block with another nonce
DecryptOtherNonce ==
    /\ cryptoSt.stage = "encrypted"
    /\ \E nonce \in OtherNonces(cryptoSt.nonce) :
          cryptoSt' = Decrypted("nonce", cryptoSt.ct, nonce, KEY)
    /\ UNCHANGED <<splitSt, tagSt, extractSt, searchSt, serviceVars, clientVars>>

\* _decrypt_block by a service configured with another key
DecryptOtherKey ==
    /\ cryptoSt.stage = "encrypted"
    /\ \E key \in OtherKeys :
          cryptoSt' = Decrypted("key", cryptoSt.ct, cryptoSt.nonce, key)
    /\ UNCHANGED <<splitSt, tagSt, extractSt, searchSt, serviceVars, clientVars>>

-----------------------------------------------------------------------------
(* The storage service: SecureStorageService.upload_file over the bucket   *)
(* and DatabaseManager's tables. One call runs at a time (the endpoint     *)
(* calls it synchronously); every bucket put and every table insert is a   *)
(* step of its own, committed when made, and any of them may fail.         *)

\* the n-th value uuid.uuid4() returns: uuids are taken to be distinct
Uuid4(n) == n

\* the n-th value get_random_bytes(16) returns to the service: the random
\* source is taken never to return the same 16 bytes twice
RandomBytes(n) ==
    [i \in 1..AES_block_size |-> IF i = AES_block_size THEN n % 256 ELSE 0]

\* the code of 'x'; the uploaded files are made of it and of the byte 255
LetterX == 120

UploadContents ==
    {Fill(n, LetterX) : n \in 0..MaxFileLen}
    \cup {Fill(n - 1, LetterX) \o <<255>> : n \in 1..MaxFileLen}
    \cup {<<255>> \o Fill(n - 1, LetterX) : n \in 1..MaxFileLen}

\* metadata=None
NoMetadata == [k \in {} |-> 0]

\* the metadata arguments of the calls: none, or a dict with a key of its own
UploadMetadata == {NoMetadata, [block_count |-> 7]}

\* f"{file_id}_block_{idx}"
BlockId(file_id, idx) == [file |-> file_id, block |-> idx]

\* f"{file_id}/{idx}"
S3Key(file_id, idx) == <<file_id, idx>>

\* _get_file_url(file_id, idx): the bucket's URL of the key
FileUrl(file_id, idx) == [url |-> S3Key(file_id, idx)]

CallIdle ==
    [pc |-> "idle", file_id |-> 0, content |-> <<>>, metadata |-> NoMetadata,
     blocks |-> <<>>, idx |-> 0, content_preview |-> <<>>,
     encrypted_block |-> <<>>, iv |-> <<>>, block_hash |-> Sha256(<<>>),
     block_urls |-> <<>>, error |-> "", result |-> NoMetadata]

\* a handler that raises an exception of its own in place of the caught one
RaisedWrapped(e) ==
    [CallIdle EXCEPT !.pc = "raised", !.file_id = call.file_id,
                     !.idx = call.idx, !.error = "UploadError"]

\* upload_file raises e (logged and re-raised) while at block idx
Raised(e) ==
    [CallIdle EXCEPT !.pc = "raised", !.file_id = call.file_id,
                     !.idx = call.idx, !.error = e]

\* a loop that ends one block early: the last block is never stored
NextBlockStopsEarly ==
    [call EXCEPT !.idx = call.idx + 1,
                 !.pc = IF call.idx + 1 < Len(call.blocks) - 1
                        THEN "put" ELSE "add_file"]

\* the end of one iteration of the loop over the blocks
NextBlock ==
    [call EXCEPT !.idx = call.idx + 1,
                 !.pc = IF call.idx + 1 < Len(call.blocks)
                        THEN "put" ELSE "add_file"]

\* upload_file(file_path, metadata) is called on a file holding content:
\* a new file_id, the content read and split
UploadStart ==
    /\ call.pc \in {"idle", "returned", "raised"}
    /\ calls < MaxUploads
    /\ \E content \in UploadContents, metadata \in UploadMetadata :
          LET bs == SplitIntoBlocks(content, BLOCK_SIZE)
          IN  call' = [CallIdle EXCEPT
                          !.pc = IF bs = <<>> THEN "add_file" ELSE "put",
                          !.file_id = Uuid4(calls + 1),
                          !.content = content,
                          !.metadata = metadata,
                          !.blocks = bs]
    /\ calls' = calls + 1
    /\ UNCHANGED <<s3, files, blocks, tags, rng, faults, harnessVars, clientVars>>

\* one block up to s3.put_object: the preview decoded, the block encrypted
\* under a new iv and hashed, the ciphertext put under file_id/idx
UploadPut ==
    /\ call.pc = "put"
    /\ LET block == call.blocks[call.idx + 1]
           text == Utf8Decode(block)
           enc == EncryptBlock(block, KEY, RandomBytes(rng + 1))
           key == S3Key(call.file_id, call.idx)
       IN  /\ rng' = rng + 1
           /\ \/ /\ s3' = [k \in DOMAIN s3 \cup {key} |->
                              IF k = key THEN enc[1] ELSE s3[k]]
                 /\ call' = [call EXCEPT
                                !.pc = "add_block",
                                !.content_preview =
                                    IF text.ok THEN text.val ELSE <<>>,
                                !.encrypted_block = enc[1],
                                !.iv = enc[2],
                                !.block_hash = Sha256(block),
                                !.block_urls =
                                    Append(@, FileUrl(call.file_id, call.idx))]
                 /\ UNCHANGED faults
              \/ /\ faults < MaxFaults
                 /\ faults' = faults + 1
                 /\ call' = Raised("ClientError")
                 /\ UNCHANGED s3
    /\ UNCHANGED <<files, blocks, tags, calls, harnessVars, clientVars>>

\* a row whose hash is computed over the encrypted block
BlockRowHashesCiphertext ==
    [block_id |-> BlockId(call.file_id, call.idx),
     file_id |-> call.file_id,
     block_index |-> call.idx,
     s3_key |-> S3Key(call.file_id, call.idx),
     hash |-> Sha256(call.encrypted_block),
     size_bytes |-> Len(call.blocks[call.idx + 1]),
     content_preview |-> call.content_preview,
     iv |-> call.iv]

\* the row db.add_block inserts for the block at hand
BlockRow ==
    [block_id |-> BlockId(call.file_id, call.idx),
     file_id |-> call.file_id,
     block_index |-> call.idx,
     s3_key |-> S3Key(call.file_id, call.idx),
     hash |-> call.block_hash,
     size_bytes |-> Len(call.blocks[call.idx + 1]),
     content_preview |-> call.content_preview,
     iv |-> call.iv]

\* db.add_block: the insert commits, or violates the primary key, or fails;
\* a block without preview has no tags and the loop goes on
UploadAddBlock ==
    /\ call.pc = "add_block"
    /\ \/ /\ \A i \in 1..Len(blocks) : blocks[i].block_id # BlockRow.block_id
          /\ blocks' = Append(blocks, BlockRow)
          /\ call' = IF call.content_preview # <<>>
                     THEN [call EXCEPT !.pc = "add_tags"]
                     ELSE NextBlock
          /\ UNCHANGED faults
       \/ /\ \E i \in 1..Len(blocks) : blocks[i].block_id = BlockRow.block_id
          /\ call' = Raised("IntegrityError")
          /\ UNCHANGED <<blocks, faults>>
       \/ /\ faults < MaxFaults
          /\ faults' = faults + 1
          /\ call' = Raised("OperationalError")
          /\ UNCHANGED blocks
    /\ UNCHANGED <<s3, files, tags, calls, rng, harnessVars, clientVars>>

\* the rows db.add_tags inserts for the block at hand; tag_id is the
\* table's AUTOINCREMENT key
TagRows(found) ==
    [i \in 1..Len(found) |->
        [tag_id |-> Len(tags) + i,
         block_id |-> BlockId(call.file_id, call.idx),
         tag |-> found[i].tag,
         tag_type |-> found[i].tag_type,
         relevance_score |-> found[i].score]]

\* tags = self._generate_tags(content_preview); db.add_tags(block_id, tags)
UploadAddTags ==
    /\ call.pc = "add_tags"
    /\ LET found == GenerateTags(call.content_preview)
       IN  \/ /\ found.ok
              /\ tags' = tags \o TagRows(found.val)
              /\ call' = NextBlock
              /\ UNCHANGED faults
           \/ /\ ~found.ok
              /\ call' = Raised(found.err)
              /\ UNCHANGED <<tags, faults>>
           \/ /\ found.ok
              /\ faults < MaxFaults
              /\ faults' = faults + 1
              /\ call' = Raised("OperationalError")
              /\ UNCHANGED tags
    /\ UNCHANGED <<s3, files, blocks, calls, rng, harnessVars, clientVars>>

\* file_metadata as upload_file builds it: its own keys first, then
\* file_metadata.update(metadata) when metadata is given and not empty
FileMetadata ==
    LET own == [original_name |-> "upload",
                size |-> Len(call.content),
                block_count |-> Len(call.blocks),
                urls |-> call.block_urls]
    IN  IF DOMAIN call.metadata # {} THEN call.metadata @@ own ELSE own

\* the row db.add_file inserts (created_at, the time of the insert, left out)
FileRow ==
    [file_id |-> call.file_id,
     original_name |-> "upload",
     mime_type |-> "application/octet-stream",
     size_bytes |-> Len(call.content),
     metadata |-> FileMetadata]

\* db.add_file after the loop, then the return of file_id, urls and metadata
UploadAddFile ==
    /\ call.pc = "add_file"
    /\ \/ /\ \A i \in 1..Len(files) : files[i].file_id # call.file_id
          /\ files' = Append(files, FileRow)
          /\ call' = [CallIdle EXCEPT
                         !.pc = "returned",
                         !.file_id = call.file_id,
                         !.idx = call.idx,
                         !.result = [file_id |-> call.file_id,
                                     urls |-> call.block_urls,
                                     metadata |-> FileMetadata]]
          /\ UNCHANGED faults
       \/ /\ \E i \in 1..Len(files) : files[i].file_id = call.file_id
          /\ call' = Raised("IntegrityError")
          /\ UNCHANGED <<files, faults>>
       \/ /\ faults < MaxFaults
          /\ faults' = faults + 1
          /\ call' = Raised("OperationalError")
          /\ UNCHANGED files
    /\ UNCHANGED <<s3, blocks, tags, calls, rng, harnessVars, clientVars>>

\* nothing stored, no call made
ServiceIdle ==
    /\ s3 = [k \in {} |-> <<>>]
    /\ files = <<>>
    /\ blocks = <<>>
    /\ tags = <<>>
    /\ call = CallIdle
    /\ calls = 0
    /\ rng = 0
    /\ faults = 0

-----------------------------------------------------------------------------
(* The uploading client (src/client) and the block server (src/server).    *)
(* The client sends one upload-block request at a time and waits for the   *)
(* answer; the server handles a request in two steps, the bucket put and   *)
(* the table insert, each of which may fail.                               *)

\* data.hex(): two hexadecimal digits per byte, as the digits' values
Hex(data) ==
    [i \in 1..(2 * Len(data)) |->
        IF i % 2 = 1 THEN data[(i + 1) \div 2] \div 16 ELSE data[i \div 2] % 16]

\* bytes.fromhex(text) for a text of hexadecimal digits
FromHex(text) ==
    IF Len(text) % 2 # 0 \/ (\E i \in 1..Len(text) : text[i] \notin 0..15)
    THEN Raise("ValueError")
    ELSE Ok([i \in 1..(Len(text) \div 2) |-> text[2 * i - 1] * 16 + text[2 * i]])

\* _pad_data(data): PKCS7 padding to 16 bytes
PadData(data) ==
    LET pad_len == 16 - (Len(data) % 16)
    IN  data \o Fill(pad_len, pad_len)

\* a tag taken from the first cipher block instead of the last
GenerateAuthTagFirstBlock(block_data, iv) ==
    LET ciphertext == CBCEncrypt(ClientKey, iv, PadData(block_data))
        auth_tag == SubSeq(ciphertext, 1, 16)
    IN  <<Hex(iv) \o Hex(auth_tag), auth_tag>>

\* generate_auth_tag(block_data), iv being what get_random_bytes(16)
\* returned: (iv.hex() + auth_tag.hex(), auth_tag)
GenerateAuthTag(block_data, iv) ==
    LET ciphertext == CBCEncrypt(ClientKey, iv, PadData(block_data))
        auth_tag == SubSeq(ciphertext, Len(ciphertext) - 15, Len(ciphertext))
    IN  <<Hex(iv) \o Hex(auth_tag), auth_tag>>

\* generate_block_id(block_data, file_id), u being what uuid.uuid4()
\* returned: the first 16 digits of a digest, taken to be free of collisions
GenerateBlockId(block_data, file_id, u) ==
    [sha256_16 |-> <<file_id, Len(block_data), u>>]

\* the files the client uploads
ClientContents == {Fill(n, LetterX) : n \in 0..MaxClientLen}

ClientIdle ==
    [pc |-> "unloaded", file_id |-> 0, blocks |-> <<>>, idx |-> 0,
     uploaded_blocks |-> <<>>, req |-> 0, how |-> "", asked |-> <<>>,
     result |-> FALSE, error |-> ""]

\* the client module is imported: verify_blocks is annotated with List, which
\* the module never imports, so an interpreter that evaluates annotations
\* when the function is defined raises NameError; one that defers them loads
ClientImport ==
    /\ client.pc = "unloaded"
    /\ \/ client' = [client EXCEPT !.pc = "idle"]
       \/ client' = [client EXCEPT !.pc = "raised", !.error = "NameError"]
    /\ UNCHANGED <<crng, srvObjects, srvRows, srvReqs, srvFaults,
                   harnessVars, serviceVars>>

\* upload_file(file_path) is called on a file holding content: a new
\* file_id, then the loop over split_file
ClientUploadStart ==
    /\ client.pc \in {"idle", "uploaded", "verified"}
    /\ client.file_id < MaxClientUploads
    /\ \E content \in ClientContents :
          LET bs == SplitFile(content, block_size)
          IN  client' = [ClientIdle EXCEPT
                            !.pc = IF bs = <<>> THEN "uploaded" ELSE "send",
                            !.file_id = client.file_id + 1,
                            !.blocks = bs]
    /\ crng' = crng + 1
    /\ UNCHANGED <<srvObjects, srvRows, srvReqs, srvFaults,
                   harnessVars, serviceVars>>

\* one iteration up to requests.post: block_id and auth_tag generated, the
\* block sent to /upload-block
ClientSendBlock ==
    /\ client.pc = "send"
    /\ LET block == client.blocks[client.idx + 1]
           block_id == GenerateBlockId(block, client.file_id, Uuid4(crng + 1))
           auth_tag == GenerateAuthTag(block, RandomBytes(crng + 2))[1]
       IN  /\ srvReqs' = Append(srvReqs,
                                [pc |-> "put", content |-> block,
                                 block_id |-> block_id,
                                 file_id |-> client.file_id,
                                 auth_tag |-> auth_tag])
           /\ client' = [client EXCEPT !.pc = "wait",
                                       !.req = Len(srvReqs) + 1]
    /\ crng' = crng + 2
    /\ UNCHANGED <<srvObjects, srvRows, srvFaults, harnessVars, serviceVars>>

\* the form fields a caller of POST /upload-block may send: any strings
ServerFileIds == {"f1", "f2"}
ServerBlockIds == {"b1", "b2"}
ServerAuthTags == {"t1", "t2"}

\* POST /upload-block arrives from any caller with a file and the form
\* fields block_id, file_id and auth_tag
ServerReceive ==
    /\ Len(srvReqs) < MaxRequests
    /\ \E file_id \in ServerFileIds, block_id \in ServerBlockIds,
          auth_tag \in ServerAuthTags :
          srvReqs' = Append(srvReqs,
                            [pc |-> "put", content |-> <<LetterX>>,
                             block_id |-> block_id,
                             file_id |-> file_id,
                             auth_tag |-> auth_tag])
    /\ UNCHANGED <<client, crng, srvObjects, srvRows, srvFaults,
                   harnessVars, serviceVars>>

\* upload_block up to s3_client.put_object: the object stored under
\* file_id/block_id with the auth_tag in its metadata, or the put fails and
\* the request is answered with status 500
ServerPut ==
    \E r \in 1..Len(srvReqs) :
        /\ srvReqs[r].pc = "put"
        /\ LET q == srvReqs[r]
               key == <<q.file_id, q.block_id>>
           IN  \/ /\ srvObjects' =
                        [k \in DOMAIN srvObjects \cup {key} |->
                            IF k = key
                            THEN [Body |-> q.content, auth_tag |-> q.auth_tag]
                            ELSE srvObjects[k]]
                  /\ srvReqs' = [srvReqs EXCEPT ![r].pc = "insert"]
                  /\ UNCHANGED srvFaults
               \/ /\ srvFaults < MaxServerFaults
                  /\ srvFaults' = srvFaults + 1
                  /\ srvReqs' = [srvReqs EXCEPT ![r].pc = "500"]
                  /\ UNCHANGED srvObjects
        /\ UNCHANGED <<client, crng, srvRows, harnessVars, serviceVars>>

\* upload_block from the INSERT on: the row committed and the request
\* answered with status 200, or the insert fails (block_id is UNIQUE) and
\* the request is answered with status 500
ServerInsert ==
    \E r \in 1..Len(srvReqs) :
        /\ srvReqs[r].pc = "insert"
        /\ LET q == srvReqs[r]
               taken == \E i \in 1..Len(srvRows) :
                            srvRows[i].block_id = q.block_id
           IN  \/ /\ ~taken
                  /\ srvRows' = Append(srvRows,
                                       [id |-> Len(srvRows) + 1,
                                        block_id |-> q.block_id,
                                        file_id |-> q.file_id,
                                        s3_url |-> <<q.file_id, q.block_id>>,
                                        auth_tag |-> q.auth_tag])
                  /\ srvReqs' = [srvReqs EXCEPT ![r].pc = "200"]
                  /\ UNCHANGED srvFaults
               \/ /\ taken
                  /\ srvReqs' = [srvReqs EXCEPT ![r].pc = "500"]
                  /\ UNCHANGED <<srvRows, srvFaults>>
               \/ /\ ~taken
                  /\ srvFaults < MaxServerFaults
                  /\ srvFaults' = srvFaults + 1
                  /\ srvReqs' = [srvReqs EXCEPT ![r].pc = "500"]
                  /\ UNCHANGED srvRows
        /\ UNCHANGED <<client, crng, srvObjects, harnessVars, serviceVars>>

\* the answer to the request arrives: the loop goes on, upload_file returns
\* file_id after the last block, or raises "Upload failed" on another status
ClientReceive ==
    /\ client.pc = "wait"
    /\ srvReqs[client.req].pc \in {"200", "500"}
    /\ client' =
          IF srvReqs[client.req].pc = "200"
          THEN [client EXCEPT
                   !.uploaded_blocks = Append(@, srvReqs[client.req].block_id),
                   !.idx = client.idx + 1,
                   !.pc = IF client.idx + 1 < Len(client.blocks)
                          THEN "send" ELSE "uploaded"]
          ELSE [client EXCEPT !.pc = "raised", !.error = "Upload failed"]
    /\ UNCHANGED <<crng, srvObjects, srvRows, srvReqs, srvFaults,
                   harnessVars, serviceVars>>

\* the server's verify_blocks(request): the contents of the objects joined,
\* as hex, and their auth tags, the only one or all joined; status 500 when
\* an object is missing
ServerVerifyBlocks(file_id, block_ids) ==
    IF \E i \in 1..Len(block_ids) : <<file_id, block_ids[i]>> \notin DOMAIN srvObjects
    THEN Raise("500")
    ELSE LET blocks_content ==
                 [i \in 1..Len(block_ids) |->
                     srvObjects[<<file_id, block_ids[i]>>].Body]
             auth_tags_with_iv ==
                 [i \in 1..Len(block_ids) |->
                     srvObjects[<<file_id, block_ids[i]>>].auth_tag]
         IN  Ok([content |-> Hex(Concat(blocks_content)),
                 auth_tag |-> IF Len(blocks_content) = 1
                              THEN auth_tags_with_iv[1]
                              ELSE Concat(auth_tags_with_iv)])

\* the lists of block ids a verification is asked for: runs of the ids the
\* upload returned, the empty list included
AskedBlockIds ==
    {SubSeq(client.uploaded_blocks, a, b) :
        a \in 1..(Len(client.uploaded_blocks) + 1),
        b \in 0..Len(client.uploaded_blocks)}

\* what the client's verify_blocks returns on the server's answer, iv being
\* what get_random_bytes(16) returns to the generate_auth_tag call it makes
VerifyBlocksResult(response, iv) ==
    IF ~response.ok THEN [result |-> FALSE, error |-> "Server error"]
    ELSE LET content == FromHex(response.val.content)
             received_auth == response.val.auth_tag
         IN  IF ~content.ok THEN [result |-> FALSE, error |-> content.err]
             ELSE [result |-> GenerateAuthTag(content.val, iv)[1] = received_auth,
                   error |-> ""]

\* verify_blocks(file_id, block_ids) on blocks of the file just uploaded
ClientVerifyBlocks ==
    /\ client.pc = "uploaded"
    /\ \E block_ids \in AskedBlockIds :
          LET response == ServerVerifyBlocks(client.file_id, block_ids)
              outcome == VerifyBlocksResult(response, RandomBytes(crng + 1))
          IN  client' = [client EXCEPT !.pc = "verified",
                                       !.how = "verify_blocks",
                                       !.asked = block_ids,
                                       !.result = outcome.result,
                                       !.error = outcome.error]
    /\ crng' = crng + 1
    /\ UNCHANGED <<srvObjects, srvRows, srvReqs, srvFaults,
                   harnessVars, serviceVars>>

\* what verify_specific_blocks returns on the server's answer: it reads the
\* keys "tags" and "block_hashes", and uploader.P and uploader.public_key,
\* which SecureFileUploader does not have; every exception is caught
VerifySpecificResult(response) ==
    IF ~response.ok THEN [result |-> FALSE, error |-> "Server error"]
    ELSE IF ~({"tags", "block_hashes"} \subseteq DOMAIN response.val)
         THEN [result |-> FALSE, error |-> "KeyError"]
         ELSE IF response.val.tags = <<>> \/ response.val.block_hashes = <<>>
              THEN [result |-> TRUE, error |-> ""]
              ELSE [result |-> FALSE, error |-> "AttributeError"]

\* verify_specific_blocks(), FILE_ID and BLOCK_IDS naming blocks of the file
\* just uploaded
VerifySpecificBlocks ==
    /\ client.pc = "uploaded"
    /\ \E block_ids \in AskedBlockIds :
          LET response == ServerVerifyBlocks(client.file_id, block_ids)
              outcome == VerifySpecificResult(response)
          IN  client' = [client EXCEPT !.pc = "verified",
                                       !.how = "verify_specific_blocks",
                                       !.asked = block_ids,
                                       !.result = outcome.result,
                                       !.error = outcome.error]
    /\ UNCHANGED <<crng, srvObjects, srvRows, srvReqs, srvFaults,
                   harnessVars, serviceVars>>

\* the client not loaded, the server's bucket and table empty
ClientServerIdle ==
    /\ client = ClientIdle
    /\ crng = 0
    /\ srvObjects = [k \in {} |-> <<>>]
    /\ srvRows = <<>>
    /\ srvReqs = <<>>
    /\ srvFaults = 0

-----------------------------------------------------------------------------
(* One generate_auth_tag call on a block and one verify_blocks call on an  *)
(* answer of the server: the block and tag as stored, the block with one   *)
(* byte changed, another tag, or an answer that does not parse.            *)

\* the blocks tags are generated for
TagContents ==
    {Fill(n, b) : n \in 0..MaxTagLen, b \in {0, LetterX}}
    \cup {Ramp(n) : n \in 0..MaxTagLen}

\* int(block_hash, 16) reduced into the group: a digest of the block as a
\* scalar, here a checksum of the bytes and the length
HashScalar(content) ==
    LET RECURSIVE Sum(_)
        Sum(i) == IF i = 0 THEN 0 ELSE (i * content[i] + Sum(i - 1)) % GroupOrder
    IN  (Sum(Len(content)) + Len(content)) % GroupOrder

\* the secret of the uploader, self.key, as a scalar of the group
SecretScalar ==
    LET RECURSIVE Sum(_)
        Sum(i) == IF i = 0 THEN 0 ELSE (ClientKey[i] + Sum(i - 1)) % GroupOrder
    IN  Sum(Len(ClientKey))

\* contents that differ from content in exactly one byte
OneByteChanged(content) ==
    {[content EXCEPT ![p] = ByteXor(content[p], m)] :
        p \in 1..Len(content), m \in FlipMasks}

\* the digit of a 'g' in a text of hexadecimal digits: not a digit
NotHexDigit == 16

\* tags of the right length that differ from tag in one digit
WrongTags(tag) ==
    {[tag EXCEPT ![p] = (tag[p] + 1) % 16] : p \in {1, 32, 33, Len(tag)}}

\* content texts that bytes.fromhex does not parse: a digit missing, or a
\* symbol that is not a digit
MalformedHex(text) ==
    {Append(text, 0), <<NotHexDigit, 0>> \o text}

TagIdle ==
    [stage |-> "input", content |-> <<>>, iv |-> <<>>, generated |-> Raise(""),
     how |-> "", vcontent |-> <<>>, vtag |-> <<>>, viv |-> <<>>,
     result |-> FALSE, error |-> ""]

\* auth_tag, _ = self.generate_auth_tag(block): it has no path that raises
TagGenerate ==
    /\ tagSt.stage = "input"
    /\ \E iv \in IVs :
          tagSt' = [tagSt EXCEPT
                       !.stage = "generated", !.iv = iv,
                       !.generated = Ok(GenerateAuthTag(tagSt.content, iv)[1])]
    /\ UNCHANGED <<splitSt, cryptoSt, extractSt, searchSt, serviceVars,
                   clientVars>>

\* the state after verify_blocks has read the answer carrying the content
\* text vcontent and the tag vtag, generate_auth_tag drawing the iv viv
TagVerified(how, vcontent, vtag, viv) ==
    LET outcome == VerifyBlocksResult(
                       Ok([content |-> vcontent, auth_tag |-> vtag]), viv)
    IN  [tagSt EXCEPT !.stage = "verified", !.how = how,
                      !.vcontent = vcontent, !.vtag = vtag, !.viv = viv,
                      !.result = outcome.result, !.error = outcome.error]

\* verify_blocks on the block and the tag as uploaded
TagVerifySame ==
    /\ tagSt.stage = "generated"
    /\ \E viv \in IVs :
          tagSt' = TagVerified("same", Hex(tagSt.content),
                               tagSt.generated.val, viv)
    /\ UNCHANGED <<splitSt, cryptoSt, extractSt, searchSt, serviceVars,
                   clientVars>>

\* verify_blocks on a block that differs in one byte from the uploaded one
TagVerifyTampered ==
    /\ tagSt.stage = "generated"
    /\ \E other \in OneByteChanged(tagSt.content), viv \in IVs :
          tagSt' = TagVerified("tampered", Hex(other),
                               tagSt.generated.val, viv)
    /\ UNCHANGED <<splitSt, cryptoSt, extractSt, searchSt, serviceVars,
                   clientVars>>

\* verify_blocks on the uploaded block and a well-formed tag that is wrong
TagVerifyWrongTag ==
    /\ tagSt.stage = "generated"
    /\ \E vtag \in WrongTags(tagSt.generated.val), viv \in IVs :
          tagSt' = TagVerified("wrong_tag", Hex(tagSt.content), vtag, viv)
    /\ UNCHANGED <<splitSt, cryptoSt, extractSt, searchSt, serviceVars,
                   clientVars>>

\* verify_blocks on an answer whose content text does not parse
TagVerifyMalformed ==
    /\ tagSt.stage = "generated"
    /\ \E vcontent \in MalformedHex(Hex(tagSt.content)), viv \in IVs :
          tagSt' = TagVerified("malformed", vcontent,
                               tagSt.generated.val, viv)
    /\ UNCHANGED <<splitSt, cryptoSt, extractSt, searchSt, serviceVars,
                   clientVars>>

\* no _generate_tags call made
ExtractIdle == [stage |-> "input", text |-> <<>>, found |-> Raise("")]

\* no search_blocks call made
SearchIdle == [query |-> <<>>, min_score |-> [num |-> 0, den |-> 1],
               rows |-> <<>>, searches |-> 0]

-----------------------------------------------------------------------------
(* search_by_keyword over the tables: DatabaseManager.search_blocks, one   *)
(* SELECT over blocks joined with files and tags. The handlers of the app  *)
(* run one at a time, so a search sees the tables between two uploads.     *)

\* the codes of '%' and '_', the wildcards of LIKE
Percent == 37
Underscore == 95

\* LIKE compares ASCII letters without regard to case
FoldCase(c) == IF c \in 65..90 THEN c + 32 ELSE c

RECURSIVE LikeMatch(_, _)
\* text LIKE pat: '%' stands for any run of characters, '_' for any one
LikeMatch(pat, text) ==
    IF pat = <<>> THEN text = <<>>
    ELSE IF Head(pat) = Percent
         THEN \E k \in 0..Len(text) :
                  LikeMatch(Tail(pat), SubSeq(text, k + 1, Len(text)))
         ELSE /\ text # <<>>
              /\ Head(pat) = Underscore \/ FoldCase(Head(pat)) = FoldCase(Head(text))
              /\ LikeMatch(Tail(pat), Tail(text))

\* the parameter bound to t.tag LIKE ?: f"%{query}%"
LikePattern(query) == <<Percent>> \o query \o <<Percent>>

\* score >= min_score, a score being num / sqrt(sq) and min_score num / den
ScoreAtLeast(score, min_score) ==
    score.num * score.num * min_score.den * min_score.den
        >= min_score.num * min_score.num * score.sq

\* a >= b for two scores
ScoreGeq(a, b) == a.num * a.num * b.sq >= b.num * b.num * a.sq

\* the tags rows joined to the blocks row b that pass the WHERE clause
MatchingTags(b, query, min_score) ==
    {t \in 1..Len(tags) :
        /\ tags[t].block_id = blocks[b].block_id
        /\ LikeMatch(LikePattern(query), tags[t].tag)
        /\ ScoreAtLeast(tags[t].relevance_score, min_score)}

\* the groups of GROUP BY b.block_id: the blocks rows that join a files row
\* and at least one tags row passing the WHERE clause
MatchingBlocks(query, min_score) ==
    {b \in 1..Len(blocks) :
        /\ \E f \in 1..Len(files) : files[f].file_id = blocks[b].file_id
        /\ MatchingTags(b, query, min_score) # {}}

\* the sequences that hold every element of S once
Orders(S) ==
    {p \in [1..Cardinality(S) -> S] :
        \A i, j \in 1..Cardinality(S) : p[i] = p[j] => i = j}

\* the row returned for the group of blocks row b: relevance_score is a bare
\* column of a grouped query, read from the group's row rep; tags joins the
\* terms of the group's rows
SearchRow(b, rep, query, min_score) ==
    [block_id |-> blocks[b].block_id,
     file_id |-> blocks[b].file_id,
     block_index |-> blocks[b].block_index,
     content_preview |-> blocks[b].content_preview,
     relevance_score |-> tags[rep].relevance_score,
     tags |-> [i \in 1..Len(SelectSeq(tags, LAMBDA t :
                                 t.tag_id \in MatchingTags(b, query, min_score)))
                 |-> SelectSeq(tags, LAMBDA t :
                         t.tag_id \in MatchingTags(b, query, min_score))[i].tag],
     url |-> FileUrl(blocks[b].file_id, blocks[b].block_index),
     inserted |-> b]

\* the results search_blocks(query, min_score) may return: one row per
\* group, ORDER BY t.relevance_score DESC; which row of a group the bare
\* column is read from and the order of rows of equal score are not fixed
\* by the query
SearchBlocks(query, min_score) ==
    LET groups == MatchingBlocks(query, min_score)
    IN  {[i \in 1..Cardinality(groups) |->
             SearchRow(order[i], rep[order[i]], query, min_score)] :
            order \in Orders(groups),
            rep \in {r \in [groups -> 1..Len(tags)] :
                        \A b \in groups :
                            r[b] \in MatchingTags(b, query, min_score)}}

\* rows are in descending order of relevance_score
ScoreDescending(rows) ==
    \A i \in 1..(Len(rows) - 1) :
        ScoreGeq(rows[i].relevance_score, rows[i + 1].relevance_score)

\* the keywords searched for: '', 'xx', 'x', 'XX', '_' and 'y'
SearchQueries == {<<>>, <<120, 120>>, <<120>>, <<88, 88>>, <<Underscore>>, <<121>>}

\* the min_score values searched with: the default 0.1, 1 and 2
MinScores == {[num |-> 1, den |-> 10], [num |-> 1, den |-> 1],
              [num |-> 2, den |-> 1]}

\* search_by_keyword(keyword, min_score) between two uploads
Search ==
    /\ call.pc \in {"idle", "returned", "raised"}
    /\ searchSt.searches < MaxSearches
    /\ \E query \in SearchQueries, min_score \in MinScores :
          \E rows \in {r \in SearchBlocks(query, min_score) : ScoreDescending(r)} :
              searchSt' = [query |-> query, min_score |-> min_score,
                           rows |-> rows,
                           searches |-> searchSt.searches + 1]
    /\ UNCHANGED <<splitSt, cryptoSt, tagSt, extractSt, serviceVars, clientVars>>

-----------------------------------------------------------------------------
(* One _generate_tags call on one text.                                    *)

\* the words of the texts: 'xx', 'yy', the stop word 'a' and the letter 'x'
TextWords == {<<120, 120>>, <<121, 121>>, <<97>>, <<120>>}

RECURSIVE JoinWords(_)
\* ' '.join(words)
JoinWords(words) ==
    IF words = <<>> THEN <<>>
    ELSE IF Len(words) = 1 THEN words[1]
    ELSE words[1] \o <<Space>> \o JoinWords(Tail(words))

\* 'xx xy yx yy xz zx': six words, eleven terms
SixWords == <<<<120, 120>>, <<120, 121>>, <<121, 120>>, <<121, 121>>,
              <<120, 122>>, <<122, 120>>>>

\* the texts handed to _generate_tags: up to MaxWords words of TextWords,
\* 'xx' up to MaxRepeat times followed by 'yy', and texts of more than
\* max_features terms
ExtractTexts ==
    {JoinWords(ws) : ws \in UNION {[1..n -> TextWords] : n \in 0..MaxWords}}
    \cup {JoinWords([i \in 1..(n + 1) |->
                        IF i <= n THEN <<120, 120>> ELSE <<121, 121>>]) :
             n \in 1..MaxRepeat}
    \cup {JoinWords(SixWords), JoinWords(SixWords \o SixWords),
          JoinWords(SixWords \o <<<<120, 120>>, <<120, 120>>>>)}

\* tags = self._generate_tags(content_preview)
Extract ==
    /\ extractSt.stage = "input"
    /\ extractSt' = [extractSt EXCEPT !.stage = "done",
                                      !.found = GenerateTags(extractSt.text)]
    /\ UNCHANGED <<splitSt, cryptoSt, tagSt, searchSt, serviceVars, clientVars>>

-----------------------------------------------------------------------------
(* Specifications.                                                         *)

\* every input of the bounds, before either splitter has run
SplitInit ==
    /\ splitSt \in {[SplitIdle EXCEPT !.content = c, !.bs = b] :
                       c \in SplitInputs, b \in 1..MaxBlockSize}
    /\ cryptoSt = CryptoIdle
    /\ ServiceIdle
    /\ ClientServerIdle
    /\ tagSt = TagIdle
    /\ extractSt = ExtractIdle
    /\ searchSt = SearchIdle

SplitNext == AppSplit \/ ClientSplit

\* the splitters on every input of the bounds
SpecSplit == SplitInit /\ [][SplitNext]_vars

\* every plaintext of the bounds, before encrypt is called
CryptoInit ==
    /\ cryptoSt \in {[CryptoIdle EXCEPT !.pt = p] : p \in Plaintexts}
    /\ splitSt = SplitIdle
    /\ ServiceIdle
    /\ ClientServerIdle
    /\ tagSt = TagIdle
    /\ extractSt = ExtractIdle
    /\ searchSt = SearchIdle

CryptoNext == Encrypt \/ Decrypt \/ DecryptCorrupted \/ DecryptOtherNonce
              \/ DecryptOtherKey

\* encrypt then decrypt on every plaintext of the bounds
SpecCrypto == CryptoInit /\ [][CryptoNext]_vars

\* the service with empty bucket and tables
Init ==
    /\ ServiceIdle
    /\ splitSt = SplitIdle
    /\ cryptoSt = CryptoIdle
    /\ ClientServerIdle
    /\ tagSt = TagIdle
    /\ extractSt = ExtractIdle
    /\ searchSt = SearchIdle

Next == UploadStart \/ UploadPut \/ UploadAddBlock \/ UploadAddTags
        \/ UploadAddFile

\* the storage service under up to MaxUploads upload_file calls
Spec == Init /\ [][Next]_vars

\* the service with empty bucket and tables, no search made
SearchInit ==
    /\ ServiceIdle
    /\ searchSt = SearchIdle
    /\ splitSt = SplitIdle
    /\ cryptoSt = CryptoIdle
    /\ tagSt = TagIdle
    /\ extractSt = ExtractIdle
    /\ ClientServerIdle

SearchNext == UploadStart \/ UploadPut \/ UploadAddBlock \/ UploadAddTags
              \/ UploadAddFile \/ Search

\* the storage service under uploads and searches
SpecSearch == SearchInit /\ [][SearchNext]_vars

\* every text of the bounds, before _generate_tags is called
ExtractInit ==
    /\ extractSt \in {[ExtractIdle EXCEPT !.text = t] : t \in ExtractTexts}
    /\ splitSt = SplitIdle
    /\ cryptoSt = CryptoIdle
    /\ tagSt = TagIdle
    /\ searchSt = SearchIdle
    /\ ServiceIdle
    /\ ClientServerIdle

ExtractNext == Extract

\* the tag extractor on every text of the bounds
SpecExtract == ExtractInit /\ [][ExtractNext]_vars

\* the client not loaded, the block server empty
ClientInit ==
    /\ ClientServerIdle
    /\ tagSt = TagIdle
    /\ extractSt = ExtractIdle
    /\ searchSt = SearchIdle
    /\ ServiceIdle
    /\ splitSt = SplitIdle
    /\ cryptoSt = CryptoIdle

ClientNext == ClientImport \/ ClientUploadStart \/ ClientSendBlock
              \/ ServerPut \/ ServerInsert \/ ClientReceive
              \/ ClientVerifyBlocks \/ VerifySpecificBlocks

\* the client uploading to the block server and verifying what it uploaded
SpecClient == ClientInit /\ [][ClientNext]_vars

ServerInit ==
    /\ ClientServerIdle
    /\ tagSt = TagIdle
    /\ extractSt = ExtractIdle
    /\ searchSt = SearchIdle
    /\ ServiceIdle
    /\ splitSt = SplitIdle
    /\ cryptoSt = CryptoIdle

ServerNext == ServerReceive \/ ServerPut \/ ServerInsert

\* the block server answering upload-block requests of any callers
SpecServer == ServerInit /\ [][ServerNext]_vars

\* every block of the bounds, before its tag is generated
TagInit ==
    /\ tagSt \in {[TagIdle EXCEPT !.content = c] : c \in TagContents}
    /\ splitSt = SplitIdle
    /\ cryptoSt = CryptoIdle
    /\ extractSt = ExtractIdle
    /\ searchSt = SearchIdle
    /\ ServiceIdle
    /\ ClientServerIdle

TagNext == TagGenerate \/ TagVerifySame \/ TagVerifyTampered
           \/ TagVerifyWrongTag \/ TagVerifyMalformed

\* a tag generated and then verified, on every block of the bounds
SpecTag == TagInit /\ [][TagNext]_vars

-----------------------------------------------------------------------------
(* The claims.                                                             *)

\* C1: for every input and every block_size > 0, the blocks of the app's
\* _split_into_blocks and of the client's split_file, concatenated in the
\* order produced, are exactly the input.
SplitJoinIdentity ==
    /\ splitSt.appDone => Concat(splitSt.app) = splitSt.content
    /\ splitSt.cliDone => Concat(splitSt.cli) = splitSt.content

\* an input of 10 * block_size bytes has been split by both into 10 blocks
SplitJoinWitness ==
    /\ splitSt.appDone /\ splitSt.cliDone
    /\ splitSt.bs > 1
    /\ Len(splitSt.content) = 10 * splitSt.bs
    /\ Len(splitSt.app) = 10 /\ Len(splitSt.cli) = 10

\* parts is ceil(n / b) blocks, all of b bytes but the last, which has 1..b
BlockShape(parts, n, b) ==
    LET k == Len(parts)
    IN  /\ k * b >= n
        /\ k > 0 => (k - 1) * b < n
        /\ n = 0 => k = 0
        /\ \A i \in 1..(k - 1) : Len(parts[i]) = b
        /\ k > 0 => Len(parts[k]) \in 1..b

\* C2: an input of n bytes is split into exactly ceil(n / b) blocks, none
\* when n = 0, each of b bytes except the last, which has 1..b bytes; the
\* client's total_blocks is the number of blocks split_file yields.
SplitBlockCount ==
    /\ splitSt.appDone =>
          BlockShape(splitSt.app, Len(splitSt.content), splitSt.bs)
    /\ splitSt.cliDone =>
          /\ BlockShape(splitSt.cli, Len(splitSt.content), splitSt.bs)
          /\ splitSt.total = Len(splitSt.cli)

\* two and a half blocks of input have been split into blocks of 2, 2 and 1
SplitBlockCountWitness ==
    /\ splitSt.appDone /\ splitSt.cliDone
    /\ splitSt.bs = 2 /\ Len(splitSt.content) = 5
    /\ splitSt.total = 3
    /\ [i \in 1..3 |-> Len(splitSt.app[i])] = <<2, 2, 1>>
    /\ [i \in 1..3 |-> Len(splitSt.cli[i])] = <<2, 2, 1>>

\* C7: decrypting what encrypt returned, with the nonce it returned and the
\* same key, gives back the plaintext.
EncryptDecryptRoundTrip ==
    (cryptoSt.stage = "decrypted" /\ cryptoSt.how = "same")
        => cryptoSt.res = Ok(cryptoSt.pt)

\* a plaintext of two whole cipher blocks has made the round trip
RoundTripWitness ==
    /\ cryptoSt.stage = "decrypted" /\ cryptoSt.how = "same"
    /\ Len(cryptoSt.pt) = 2 * AES_block_size
    /\ Len(cryptoSt.ct) = 3 * AES_block_size
    /\ cryptoSt.res = Ok(cryptoSt.pt)

\* C9 as claimed: decrypt fails, and returns no plaintext, whenever the
\* ciphertext is corrupted, the nonce is another one or the key is another one.
TamperedDecryptFails ==
    (cryptoSt.stage = "decrypted" /\ cryptoSt.how \in {"ciphertext", "nonce", "key"})
        => ~cryptoSt.res.ok

\* C9 as amended: with a corrupted ciphertext, or a nonce that decodes to
\* another iv, decrypt never returns the original plaintext (it raises or
\* returns other bytes); with another nonce text that decodes to the same iv
\* it returns the original plaintext.
TamperedDecryptNeverOriginal ==
    cryptoSt.stage = "decrypted" =>
        /\ cryptoSt.how = "ciphertext" => cryptoSt.res # Ok(cryptoSt.pt)
        /\ cryptoSt.how = "nonce" =>
              (cryptoSt.res = Ok(cryptoSt.pt)
                  <=> B64Decode(cryptoSt.dnonce) = Ok(cryptoSt.iv))

\* decrypt with the nonce of another iv has returned a wrong plaintext
\* without raising
TamperedDecryptWitness ==
    /\ cryptoSt.stage = "decrypted" /\ cryptoSt.how = "nonce"
    /\ B64Decode(cryptoSt.dnonce) # Ok(cryptoSt.iv)
    /\ cryptoSt.res.ok
    /\ cryptoSt.res.val # cryptoSt.pt

\* the rows of a table that satisfy a condition, in table order
Rows(table, Test(_)) == SelectSeq(table, Test)

\* the blocks rows of one file
BlocksOfFile(file_id) == Rows(blocks, LAMBDA b : b.file_id = file_id)

\* the blocks a file of size bytes is split into
BlocksNeeded(size) == (size + BLOCK_SIZE - 1) \div BLOCK_SIZE

\* C3: a File record exists only when the Block record of every block of
\* that file exists: upload_file writes it after all of them.
FileAfterAllBlocks ==
    \A f \in 1..Len(files) :
        \A i \in 0..(BlocksNeeded(files[f].size_bytes) - 1) :
            \E b \in 1..Len(blocks) :
                /\ blocks[b].file_id = files[f].file_id
                /\ blocks[b].block_index = i

\* a file of two blocks has its File record and both Block records
FileAfterAllBlocksWitness ==
    \E f \in 1..Len(files) :
        /\ BlocksNeeded(files[f].size_bytes) = 2
        /\ Len(BlocksOfFile(files[f].file_id)) = 2

\* the tag rows of one block
TagsOfBlock(block_id) == Rows(tags, LAMBDA t : t.block_id = block_id)

\* the tag rows a Block record's preview calls for are all stored
TagDataPresent(row) ==
    LET found == GenerateTags(row.content_preview)
    IN  row.content_preview # <<>> =>
            /\ found.ok
            /\ Len(TagsOfBlock(row.block_id)) = Len(found.val)

\* C4 as claimed: in every state a block's ciphertext, its Block record and
\* its tag data are all stored or none of them is.
BlockWrittenAtomically ==
    \A file_id \in 1..MaxUploads, idx \in 0..MaxFileLen :
        LET stored == S3Key(file_id, idx) \in DOMAIN s3
            rows == Rows(blocks,
                         LAMBDA b : b.block_id = BlockId(file_id, idx))
        IN  /\ stored <=> rows # <<>>
            /\ \A r \in 1..Len(rows) : TagDataPresent(rows[r])

\* C5 as claimed: in every state every Block record belongs to a File
\* record that exists.
NoBlockWithoutFile ==
    \A b \in 1..Len(blocks) :
        \E f \in 1..Len(files) : files[f].file_id = blocks[b].file_id

\* C6 as claimed: for every File record the Block records of the file carry
\* the indices 0..block_count-1 of its stored metadata, each once, and no
\* block_id occurs twice.
BlocksContiguous ==
    /\ \A f \in 1..Len(files) :
          LET own == BlocksOfFile(files[f].file_id)
          IN  /\ {own[i].block_index : i \in 1..Len(own)}
                     = 0..(files[f].metadata.block_count - 1)
              /\ Len(own) = files[f].metadata.block_count
    /\ \A i, j \in 1..Len(blocks) :
          blocks[i].block_id = blocks[j].block_id => i = j

\* C8: no two stored Block records, of one file or of two, carry the same
\* nonce (the random source taken never to repeat a value).
NoncesNeverReused ==
    \A i, j \in 1..Len(blocks) : blocks[i].iv = blocks[j].iv => i = j

\* two blocks of one file and a block of another file are stored
NoncesWitness ==
    \E i, j, k \in 1..Len(blocks) :
        /\ i # j /\ blocks[i].file_id = blocks[j].file_id
        /\ blocks[k].file_id # blocks[i].file_id
        /\ blocks[i].iv # blocks[j].iv /\ blocks[i].iv # blocks[k].iv
        /\ B64Decode(blocks[k].iv).ok

\* C10 as claimed: a verification of unmodified blocks that were uploaded
\* with upload_file returns True, by verify_blocks and by
\* verify_specific_blocks alike.
VerifyUnmodifiedTrue ==
    (client.pc = "verified" /\ client.asked # <<>>) => client.result

\* C11: verifying the tag generated for a block against a block that
\* differs from it in one byte returns False, whatever iv the verification
\* draws, the iv of the upload included.
TamperedBlockRejected ==
    (tagSt.stage = "verified" /\ tagSt.how = "tampered") => ~tagSt.result

\* a block of two cipher blocks, changed in its last byte, has been rejected
\* by a verification that drew the iv of the upload
TamperedBlockWitness ==
    /\ tagSt.stage = "verified" /\ tagSt.how = "tampered"
    /\ tagSt.viv = tagSt.iv
    /\ Len(tagSt.content) > AES_block_size
    /\ SubSeq(FromHex(tagSt.vcontent).val, 1, AES_block_size)
           = SubSeq(tagSt.content, 1, AES_block_size)
    /\ ~tagSt.result

\* C12 as claimed: when the hash scalar h of the block and the secret
\* scalar x satisfy h + x = 0 mod r, tag generation raises and returns no
\* tag; for every other h it returns a tag.
DegenerateKeyRaises ==
    tagSt.stage # "input" =>
        (tagSt.generated.ok
            <=> (HashScalar(tagSt.content) + SecretScalar) % GroupOrder # 0)

\* C13 as claimed: verification returns a boolean on every well-formed
\* answer, and on a malformed one an outcome that is no boolean, which the
\* caller can tell from a negative result.
MalformedToldApart ==
    tagSt.stage = "verified" =>
        (tagSt.result \in BOOLEAN <=> tagSt.how # "malformed")

\* q occurs in text as a substring
Contains(text, q) ==
    \E k \in 1..(Len(text) - Len(q) + 1) : SubSeq(text, k, k + Len(q) - 1) = q

\* the blocks rows search(q, m) is to return: those whose File record exists
\* and that have a Tag record whose term contains q and whose score is >= m
Wanted(q, m) ==
    {b \in 1..Len(blocks) :
        /\ \E f \in 1..Len(files) : files[f].file_id = blocks[b].file_id
        /\ \E t \in 1..Len(tags) :
               /\ tags[t].block_id = blocks[b].block_id
               /\ Contains(tags[t].tag, q)
               /\ ScoreAtLeast(tags[t].relevance_score, m)}

\* C14 as claimed: search(q, m) returns a block if and only if its File
\* record exists and one of its Tag records has a term that contains q as a
\* substring and a score >= m, and returns each such block once.
SearchFilterExact ==
    [][searchSt' # searchSt =>
          LET rows == searchSt'.rows
              wanted == Wanted(searchSt'.query, searchSt'.min_score)
          IN  /\ {rows[i].inserted : i \in 1..Len(rows)} = wanted
              /\ Len(rows) = Cardinality(wanted)]_vars

\* C15 as claimed: the results of search are in descending order of
\* relevance_score, and results of equal score are in the order their blocks
\* were inserted.
SearchOrderStable ==
    searchSt.searches > 0 =>
        \A i \in 1..(Len(searchSt.rows) - 1) :
            LET a == searchSt.rows[i]
                b == searchSt.rows[i + 1]
            IN  /\ ScoreGeq(a.relevance_score, b.relevance_score)
                /\ ScoreGeq(b.relevance_score, a.relevance_score)
                      => a.inserted < b.inserted

\* block holds a byte that occurs in no UTF-8 text
Undecodable(block) == \E i \in 1..Len(block) : block[i] \in NeverUtf8

\* C16: when a block cannot be decoded as UTF-8, upload_file takes the
\* preview to be empty, stores the ciphertext and the Block record, stores
\* no Tag record for the block, raises nothing on account of the block and
\* goes on with the next block.
UndecodableBlockStored ==
    [][(call.pc \in {"put", "add_block"}
            /\ Undecodable(call.blocks[call.idx + 1]))
          => /\ call'.pc = "raised"
                   => call'.error \in {"ClientError", "OperationalError"}
             /\ (call.pc = "put" /\ call'.pc # "raised")
                   => /\ call'.pc = "add_block"
                      /\ call'.content_preview = <<>>
                      /\ S3Key(call.file_id, call.idx) \in DOMAIN s3'
             /\ (call.pc = "add_block" /\ call'.pc # "raised")
                   => /\ Len(blocks') = Len(blocks) + 1
                      /\ blocks'[Len(blocks')].block_id
                            = BlockId(call.file_id, call.idx)
                      /\ blocks'[Len(blocks')].content_preview = <<>>
                      /\ tags' = tags
                      /\ TagsOfBlock(BlockId(call.file_id, call.idx)) = <<>>
                      /\ call'.idx = call.idx + 1
                      /\ call'.pc = IF call.idx + 1 < Len(call.blocks)
                                    THEN "put" ELSE "add_file"]_vars

\* a file whose first block cannot be decoded has been uploaded whole: the
\* first Block record has no preview and no tags, the second has its tags
UndecodableBlockWitness ==
    \E f \in 1..Len(files), a, b \in 1..Len(blocks) :
        /\ blocks[a].file_id = files[f].file_id
        /\ blocks[b].file_id = files[f].file_id
        /\ blocks[a].block_index = 0 /\ blocks[b].block_index = 1
        /\ blocks[a].content_preview = <<>>
        /\ blocks[a].s3_key \in DOMAIN s3
        /\ TagsOfBlock(blocks[a].block_id) = <<>>
        /\ TagsOfBlock(blocks[b].block_id) # <<>>

\* C17: the tags the extractor returns have type 'tfidf' and a score greater
\* than 0.1 and at most 1, are at most max_features, and come in descending
\* order of score.
TagsWithinBounds ==
    (extractSt.stage = "done" /\ extractSt.found.ok) =>
        LET found == extractSt.found.val
        IN  /\ Len(found) <= max_features
            /\ \A i \in 1..Len(found) :
                   /\ found[i].tag_type = "tfidf"
                   /\ 100 * found[i].score.num * found[i].score.num
                         > found[i].score.sq
                   /\ found[i].score.num * found[i].score.num
                         <= found[i].score.sq
            /\ \A i \in 1..(Len(found) - 1) :
                   ScoreGeq(found[i].score, found[i + 1].score)

\* a text of twelve terms has given tags of two scores, a term of score
\* below 0.1 left out
TagsWithinBoundsWitness ==
    /\ extractSt.stage = "done" /\ extractSt.found.ok
    /\ Len(Words(extractSt.text, <<>>)) = MaxRepeat + 1
    /\ Len(extractSt.found.val) = 2
    /\ ~ScoreGeq(extractSt.found.val[2].score, extractSt.found.val[1].score)

\* the plaintext of a Block record: its stored ciphertext decrypted with
\* its stored nonce
PlaintextOf(row) == DecryptBlock(s3[row.s3_key], row.iv, KEY)

\* C18: the hash of a Block record is the digest of the block's plaintext:
\* two records have the same hash exactly when their plaintexts are the
\* same, whatever their nonces, ciphertexts, file_ids and indices.
HashOverPlaintext ==
    \A i, j \in 1..Len(blocks) :
        /\ blocks[i].s3_key \in DOMAIN s3
        /\ PlaintextOf(blocks[i]).ok
        /\ blocks[i].hash = Sha256(PlaintextOf(blocks[i]).val)
        /\ blocks[i].hash = blocks[j].hash
              <=> PlaintextOf(blocks[i]).val = PlaintextOf(blocks[j]).val

\* two records of different files with the same plaintext, other nonces and
\* other ciphertexts have the same hash, and a record of another plaintext
\* has another hash
HashOverPlaintextWitness ==
    \E i, j, k \in 1..Len(blocks) :
        /\ blocks[i].file_id # blocks[j].file_id
        /\ blocks[i].block_index # blocks[j].block_index
        /\ blocks[i].iv # blocks[j].iv
        /\ s3[blocks[i].s3_key] # s3[blocks[j].s3_key]
        /\ PlaintextOf(blocks[i]) = PlaintextOf(blocks[j])
        /\ blocks[i].hash = blocks[j].hash
        /\ PlaintextOf(blocks[k]) # PlaintextOf(blocks[i])
        /\ blocks[k].hash # blocks[i].hash

\* C19: when s3.put_object fails for the block of index i, upload_file
\* raises that same failure, no Block or Tag record of that file exists for
\* an index i or later, no File record of that file exists, and the records
\* of the indices 0..i-1 are kept as they were.
PutFailurePropagated ==
    [][(call.pc = "put" /\ call'.pc = "raised") =>
          /\ call'.error = "ClientError"
          /\ call'.file_id = call.file_id
          /\ blocks' = blocks /\ tags' = tags /\ files' = files
          /\ \A n \in 1..Len(blocks') :
                 blocks'[n].file_id = call.file_id =>
                     blocks'[n].block_index < call.idx
          /\ \A n \in 1..Len(tags') :
                 tags'[n].block_id.file = call.file_id =>
                     tags'[n].block_id.block < call.idx
          /\ \A n \in 1..Len(files') : files'[n].file_id # call.file_id
          /\ \A k \in 0..(call.idx - 1) :
                 \E n \in 1..Len(blocks') :
                     blocks'[n].block_id = BlockId(call.file_id, k)]_vars

\* the put of the second block of a file has failed: the first block's
\* record and tags are there
PutFailureWitness ==
    /\ call.pc = "raised" /\ call.error = "ClientError" /\ call.idx = 1
    /\ \E n \in 1..Len(blocks) : blocks[n].block_id = BlockId(call.file_id, 0)
    /\ \E n \in 1..Len(tags) : tags[n].block_id = BlockId(call.file_id, 0)
    /\ \A n \in 1..Len(files) : files[n].file_id # call.file_id

\* C20: after any upload-block requests, every row of the server's blocks
\* table has its object in the bucket under file_id/block_id, and the
\* auth_tag in the object's metadata is the auth_tag of the row.
ServerRowsAgree ==
    \A i \in 1..Len(srvRows) :
        LET key == <<srvRows[i].file_id, srvRows[i].block_id>>
        IN  /\ key \in DOMAIN srvObjects
            /\ srvObjects[key].auth_tag = srvRows[i].auth_tag

=============================================================================
